---- MODULE Spec2Model ----
(***************************************************************************)
(* A model of the SGP30 driver (src/src/sgp30/sgp30.py).                   *)
(*                                                                         *)
(* The session object holds bus, address and latest_measurement.  Every    *)
(* public operation is a synchronous call: it runs to completion on the    *)
(* calling thread.  A call is one action, from pc = "idle" to pc = "done"; *)
(* the "done" state holds what the call did (the bus transactions and      *)
(* sleeps it issued, in order, and what it returned or raised).  Return    *)
(* hands the result to the caller and makes the session idle again.        *)
(*                                                                         *)
(* The bus (smbus2) and the sensor are outside the repository.  What the   *)
(* bus does on each command is an input of the call: whether the write     *)
(* transaction fails, whether the read transaction fails, and the bytes    *)
(* the read delivers.                                                      *)
(*                                                                         *)
(* Besides Spec there are four specifications of parts of the driver on    *)
(* their own: SpecCodec (_encode, one flipped bit, _decode), SpecDecode    *)
(* (_decode on frames damaged in any blocks), SpecCrc (_crc on every       *)
(* 2-byte input) and SpecCallers (_command step by step, two callers).     *)
(*                                                                         *)
(* Python values:  bytes and lists are sequences of integers; an Optional  *)
(* is None (<<>>) or Some(x) (<<x>>); a float humidity is the exact        *)
(* rational num/den (binary rounding of the product is not modelled);      *)
(* sleep durations are in milliseconds.                                    *)
(***************************************************************************)
EXTENDS Integers, Sequences, FiniteSets, TLC

VARIABLES
    bus,                 \* SGP30.bus: the bus handle given to __init__
    address,             \* SGP30.address
    latest_measurement,  \* SGP30.latest_measurement: None or Some(measurement)
    dev_baseline,        \* the sensor: the baseline words it holds
    pc,                  \* "idle": no call running; "done": a call has finished
    op,                  \* the operation last called
    arg,                 \* its argument
    script,              \* what the bus does on each command of the call
    status,              \* "ok", or the exception the call raised
    value,               \* None or Some(return value)
    events,              \* bus transactions and sleeps of the call, in order
    err_block,           \* the block an InvalidCRC reports
    measured,            \* history: what the last successful measure() returned
    set_pair,            \* history: argument of the last successful baseline set
    after_failure,       \* history: the call before this one raised OSError
    c_pc,                \* codec harness: position
    c_words,             \* codec harness: the words given to _encode
    c_frame,             \* codec harness: the frame given to _decode
    c_flip,              \* codec harness: the bit flipped in the frame (0: none)
    c_out,               \* codec harness: what _decode returned or raised
    serialised,          \* callers: they run their calls one at a time
    th,                  \* callers: where each caller is in _command
    wire                 \* callers: what they did on the bus, in order

session == <<bus, address, latest_measurement>>
call    == <<pc, op, arg, script, status, value, events, err_block>>
history == <<measured, set_pair, after_failure>>
driver  == <<session, dev_baseline, call, history>>
codec   == <<c_pc, c_words, c_frame, c_flip, c_out>>
callers == <<serialised, th, wire>>
vars    == <<driver, codec, callers>>

-----------------------------------------------------------------------------
(* Bounds of the model *)

MaxWords == 2   \* codec harness: longest word sequence encoded
MaxExtra == 1   \* initialise: polls the sensor could answer beyond the 20th
MaxCalls == 2   \* callers: calls started, over all callers

-----------------------------------------------------------------------------
(* Program constants *)

DefaultAddress == 88      \* 0x58
CrcInit        == 255     \* 0xFF
CrcPoly        == 49      \* 0x31
CrcHighBit     == 128     \* 0x80
PollLimit      == 20      \* range(20)
DefaultCo2     == 400     \* result.equivalent_co2 != 400
HumidityLimit  == 255     \* int(humidity) > 255
HumidityScale  == 255     \* int(humidity * 255)

-----------------------------------------------------------------------------
(* Python values *)

None    == <<>>
Some(x) == <<x>>

Min(a, b) == IF a <= b THEN a ELSE b

\* int(x) of the rational n/d, d > 0: truncation toward zero
Trunc(n, d) == IF n >= 0 THEN n \div d ELSE -((-n) \div d)

\* a ^ b on non-negative integers of any width
RECURSIVE Xor(_, _)
Xor(a, b) ==
    IF a = 0 THEN b
    ELSE IF b = 0 THEN a
    ELSE ((a + b) % 2) + 2 * Xor(a \div 2, b \div 2)

\* Python integers are unbounded and the serial id has 48 bits: such an
\* integer is the sequence of its base-65536 digits, least significant
\* first, without leading zeros (0 is <<>>).
BigNorm(a) ==
    LET top == {i \in 1..Len(a) : a[i] # 0}
    IN  IF top = {} THEN <<>>
        ELSE SubSeq(a, 1, CHOOSE i \in top : \A j \in top : j <= i)

\* w << bits, for a 16-bit w and bits a multiple of 16
BigShl(w, bits) == BigNorm([i \in 1..(bits \div 16) |-> 0] \o <<w>>)

Digit(a, i) == IF i <= Len(a) THEN a[i] ELSE 0

RECURSIVE BigAddFrom(_, _, _, _)
BigAddFrom(a, b, i, carry) ==
    IF i > Len(a) /\ i > Len(b)
    THEN IF carry = 0 THEN <<>> ELSE <<carry>>
    ELSE LET t == Digit(a, i) + Digit(b, i) + carry
         IN  <<t % 65536>> \o BigAddFrom(a, b, i + 1, t \div 65536)

\* a + b
BigAdd(a, b) == BigNorm(BigAddFrom(a, b, 1, 0))

\* a variant of PackH that packs little-endian ("<H")
PackH_little_endian(w) == <<w % 256, w \div 256>>

\* pack(">H", w) and its inverse, unpack(">H", b)
PackH(w)   == <<w \div 256, w % 256>>
UnpackH(b) == b[1] * 256 + b[2]

\* raw[lo:hi] (0-based, half open), as Python slices: clipped to the data
Slice(raw, lo, hi) ==
    IF lo >= Min(hi, Len(raw)) THEN <<>>
    ELSE SubSeq(raw, lo + 1, Min(hi, Len(raw)))

-----------------------------------------------------------------------------
(* _crc: the accumulator is a Python int, so it grows past 8 bits; it is   *)
(* masked once, at the end.                                                *)

CrcShift(crc) ==
    IF (crc \div CrcHighBit) % 2 = 1 THEN Xor(crc * 2, CrcPoly) ELSE crc * 2

RECURSIVE CrcShifts(_, _)
CrcShifts(crc, n) == IF n = 0 THEN crc ELSE CrcShifts(CrcShift(crc), n - 1)

CrcByte(crc, byte) == CrcShifts(Xor(crc, byte), 8)

\* a variant of _crc without the final mask
_crc_unmasked(data) == <<CrcByte(CrcByte(CrcInit, data[1]), data[2])>>

\* data is 2 bytes (the assert); the result is 1 byte, as bytes
_crc(data) == <<CrcByte(CrcByte(CrcInit, data[1]), data[2]) % 256>>

-----------------------------------------------------------------------------
(* _encode and _decode *)

EncOk(b)   == [status |-> "ok", bytes |-> b]
EncErr(s)  == [status |-> s, bytes |-> <<>>]

\* a variant of the loop of _encode that puts the checksum before the word
RECURSIVE EncodeFrom_crc_first(_, _, _)
EncodeFrom_crc_first(parameters, i, result) ==
    IF i > Len(parameters) THEN EncOk(result)
    ELSE IF parameters[i] < 0 \/ parameters[i] > 65535 THEN EncErr("struct.error")
    ELSE LET packed_parameter == PackH(parameters[i])
             crc == _crc(packed_parameter)
         IN  EncodeFrom_crc_first(parameters, i + 1, result \o crc \o packed_parameter)

\* pack(">H", p) raises struct.error outside 0..65535
RECURSIVE EncodeFrom(_, _, _)
EncodeFrom(parameters, i, result) ==
    IF i > Len(parameters) THEN EncOk(result)
    ELSE IF parameters[i] < 0 \/ parameters[i] > 65535 THEN EncErr("struct.error")
    ELSE LET packed_parameter == PackH(parameters[i])
             crc == _crc(packed_parameter)
         IN  EncodeFrom(parameters, i + 1, result \o packed_parameter \o crc)

_encode(parameters) == EncodeFrom(parameters, 1, <<>>)

DecOk(ws)     == [status |-> "ok", words |-> ws, block |-> <<>>]
DecErr(s, b)  == [status |-> s, words |-> <<>>, block |-> b]

\* a variant of the check loop that goes on after a bad block, so that the
\* last bad block is the one reported
RECURSIVE DecodeCheck_last(_, _, _)
DecodeCheck_last(raw_data, n_parameters, i) ==
    IF i >= n_parameters THEN DecOk(<<>>)
    ELSE LET block == Slice(raw_data, 3 * i, 3 * (i + 1))
             rest == DecodeCheck_last(raw_data, n_parameters, i + 1)
         IN  IF rest.status # "ok" THEN rest
             ELSE IF Len(block) # 3 THEN DecErr("AssertionError", block)
             ELSE IF _crc(Slice(block, 0, 2)) # Slice(block, 2, 3)
                  THEN DecErr("InvalidCRC", block)
                  ELSE rest

\* the check loop: the first block whose CRC differs raises InvalidCRC; a
\* block shorter than 3 bytes trips the assert of _crc
RECURSIVE DecodeCheck(_, _, _)
DecodeCheck(raw_data, n_parameters, i) ==
    IF i >= n_parameters THEN DecOk(<<>>)
    ELSE LET block == Slice(raw_data, 3 * i, 3 * (i + 1))
         IN  IF Len(block) # 3 THEN DecErr("AssertionError", block)
             ELSE IF _crc(Slice(block, 0, 2)) # Slice(block, 2, 3)
                  THEN DecErr("InvalidCRC", block)
                  ELSE DecodeCheck(raw_data, n_parameters, i + 1)

\* unpack(">" + "Hx" * n, raw_data): needs exactly 3n bytes
UnpackHx(raw_data, n_parameters) ==
    [i \in 1..n_parameters |-> UnpackH(Slice(raw_data, 3 * (i - 1), 3 * (i - 1) + 2))]

\* a variant of _decode that unpacks without the check loop
_decode_unchecked(raw_data, n_parameters) ==
    IF Len(raw_data) # 3 * n_parameters THEN DecErr("struct.error", <<>>)
    ELSE DecOk(UnpackHx(raw_data, n_parameters))

_decode(raw_data, n_parameters) ==
    LET checked == DecodeCheck(raw_data, n_parameters, 0)
    IN  IF checked.status # "ok" THEN checked
        ELSE IF Len(raw_data) # 3 * n_parameters THEN DecErr("struct.error", <<>>)
        ELSE DecOk(UnpackHx(raw_data, n_parameters))

-----------------------------------------------------------------------------
(* The bus: what a call did on it, in order *)

Write(addr, data) == [t |-> "write", addr |-> addr, data |-> data, n |-> 0]
Read(addr, count) == [t |-> "read",  addr |-> addr, data |-> <<>>, n |-> count]
Sleep(ms)         == [t |-> "sleep", addr |-> 0,    data |-> <<>>, n |-> ms]

\* what the bus does on one command: the write transaction fails, or the
\* read transaction fails, or the read delivers data
BusOk(data)  == [wfail |-> FALSE, rfail |-> FALSE, data |-> data]
BusWriteFail == [wfail |-> TRUE,  rfail |-> FALSE, data |-> <<>>]
BusReadFail  == [wfail |-> FALSE, rfail |-> TRUE,  data |-> <<>>]

-----------------------------------------------------------------------------
(* _command: the opcode and the encoded parameters go out in one write;    *)
(* with read_parameters > 0 it sleeps for delay, reads 3 bytes per word    *)
(* and decodes them.  i2c_rdwr raises OSError when a transaction fails.    *)

Cmd(st, ret, evs, blk) == [status |-> st, ret |-> ret, events |-> evs, block |-> blk]

\* a variant of _command that reads at once, without the settling sleep
_command_no_sleep(self, command, parameters, read_parameters, delay, e) ==
    LET enc == IF parameters # None THEN _encode(parameters[1]) ELSE EncOk(<<>>)
    IN  IF enc.status # "ok" THEN Cmd(enc.status, None, <<>>, <<>>)
        ELSE
        LET w == <<Write(self.address, command \o enc.bytes)>>
        IN  IF e.wfail THEN Cmd("OSError", None, w, <<>>)
            ELSE IF read_parameters > 0 THEN
                LET evs == w \o <<Read(self.address, read_parameters * 3)>>
                IN  IF e.rfail THEN Cmd("OSError", None, evs, <<>>)
                    ELSE LET d == _decode(e.data, read_parameters)
                         IN  IF d.status # "ok"
                             THEN Cmd(d.status, None, evs, d.block)
                             ELSE Cmd("ok", Some(d.words), evs, <<>>)
            ELSE Cmd("ok", None, w, <<>>)

\* a variant of _command that tries once more when the checksum is wrong
_command_retry_crc(self, command, parameters, read_parameters, delay, e) ==
    LET enc == IF parameters # None THEN _encode(parameters[1]) ELSE EncOk(<<>>)
    IN  IF enc.status # "ok" THEN Cmd(enc.status, None, <<>>, <<>>)
        ELSE
        LET w == <<Write(self.address, command \o enc.bytes)>>
        IN  IF e.wfail THEN Cmd("OSError", None, w, <<>>)
            ELSE IF read_parameters > 0 THEN
                LET evs == w \o <<Sleep(delay), Read(self.address, read_parameters * 3)>>
                IN  IF e.rfail THEN Cmd("OSError", None, evs, <<>>)
                    ELSE LET d == _decode(e.data, read_parameters)
                         IN  IF d.status # "ok"
                             THEN Cmd(d.status, None, evs \o evs, d.block)
                             ELSE Cmd("ok", Some(d.words), evs, <<>>)
            ELSE Cmd("ok", None, w, <<>>)

\* a variant of _command that writes once more when the write fails
_command_retry_write(self, command, parameters, read_parameters, delay, e) ==
    LET enc == IF parameters # None THEN _encode(parameters[1]) ELSE EncOk(<<>>)
    IN  IF enc.status # "ok" THEN Cmd(enc.status, None, <<>>, <<>>)
        ELSE
        LET w == <<Write(self.address, command \o enc.bytes)>>
        IN  IF e.wfail THEN Cmd("OSError", None, w \o w, <<>>)
            ELSE IF read_parameters > 0 THEN
                LET evs == w \o <<Sleep(delay), Read(self.address, read_parameters * 3)>>
                IN  IF e.rfail THEN Cmd("OSError", None, evs, <<>>)
                    ELSE LET d == _decode(e.data, read_parameters)
                         IN  IF d.status # "ok"
                             THEN Cmd(d.status, None, evs, d.block)
                             ELSE Cmd("ok", Some(d.words), evs, <<>>)
            ELSE Cmd("ok", None, w, <<>>)

_command(self, command, parameters, read_parameters, delay, e) ==
    LET enc == IF parameters # None THEN _encode(parameters[1]) ELSE EncOk(<<>>)
    IN  IF enc.status # "ok" THEN Cmd(enc.status, None, <<>>, <<>>)
        ELSE
        LET w == <<Write(self.address, command \o enc.bytes)>>
        IN  IF e.wfail THEN Cmd("OSError", None, w, <<>>)
            ELSE IF read_parameters > 0 THEN
                LET evs == w \o <<Sleep(delay), Read(self.address, read_parameters * 3)>>
                IN  IF e.rfail THEN Cmd("OSError", None, evs, <<>>)
                    ELSE LET d == _decode(e.data, read_parameters)
                         IN  IF d.status # "ok"
                             THEN Cmd(d.status, None, evs, d.block)
                             ELSE Cmd("ok", Some(d.words), evs, <<>>)
            ELSE Cmd("ok", None, w, <<>>)

-----------------------------------------------------------------------------
(* The operations of SGP30.  Each gives what the call returned or raised,  *)
(* what it did on the bus, the session after it, and the results of the    *)
(* measure() calls made in it.                                             *)

Res(st, val, evs, blk, self, ms) ==
    [status |-> st, value |-> val, events |-> evs, block |-> blk,
     self |-> self, measures |-> ms]

\* an exception of _command passes through the operation unchanged
Raised(c, self) == Res(c.status, None, c.events, c.block, self, <<>>)

Measurement(co2, tvoc) == [equivalent_co2 |-> co2, tvoc |-> tvoc]

\* a variant of serial_id that shifts the first word by 16 bits only
serial_id_overlap(self, e) ==
    LET c == _command(self, <<54, 130>>, None, 3, 1, e)
    IN  IF c.status # "ok" THEN Raised(c, self)
        ELSE LET data == c.ret[1]
             IN  Res("ok", Some(BigAdd(BigAdd(BigShl(data[1], 16), BigShl(data[2], 16)),
                                       BigShl(data[3], 0))),
                     c.events, <<>>, self, <<>>)

serial_id(self, e) ==
    LET c == _command(self, <<54, 130>>, None, 3, 1, e)
    IN  IF c.status # "ok" THEN Raised(c, self)
        ELSE LET data == c.ret[1]
             IN  Res("ok", Some(BigAdd(BigAdd(BigShl(data[1], 32), BigShl(data[2], 16)),
                                       BigShl(data[3], 0))),
                     c.events, <<>>, self, <<>>)

feature_set(self, e) ==
    LET c == _command(self, <<32, 47>>, None, 1, 2, e)
    IN  IF c.status # "ok" THEN Raised(c, self)
        ELSE Res("ok", Some(c.ret[1][1]), c.events, <<>>, self, <<>>)

baseline_get(self, e) ==
    LET c == _command(self, <<32, 21>>, None, 2, 10, e)
    IN  IF c.status # "ok" THEN Raised(c, self)
        ELSE Res("ok", Some(<<c.ret[1][1], c.ret[1][2]>>), c.events, <<>>, self, <<>>)

\* a variant of the baseline setter that writes the words in read order
baseline_set_read_order(self, values, e) ==
    LET c == _command(self, <<32, 30>>, Some(<<values[1], values[2]>>), 0, 0, e)
    IN  IF c.status # "ok" THEN Raised(c, self)
        ELSE Res("ok", None, c.events, <<>>, self, <<>>)

baseline_set(self, values, e) ==
    LET c == _command(self, <<32, 30>>, Some(<<values[2], values[1]>>), 0, 0, e)
    IN  IF c.status # "ok" THEN Raised(c, self)
        ELSE Res("ok", None, c.events, <<>>, self, <<>>)

\* a variant of measure that takes the response words as (tvoc, co2)
measure_swapped(self, e) ==
    LET c == _command(self, <<32, 8>>, None, 2, 22, e)
    IN  IF c.status # "ok" THEN Raised(c, self)
        ELSE LET m == Measurement(c.ret[1][2], c.ret[1][1])
             IN  Res("ok", Some(m), c.events, <<>>,
                     [self EXCEPT !.latest_measurement = Some(m)], <<m>>)

measure(self, e) ==
    LET c == _command(self, <<32, 8>>, None, 2, 22, e)
    IN  IF c.status # "ok" THEN Raised(c, self)
        ELSE LET m == Measurement(c.ret[1][1], c.ret[1][2])
             IN  Res("ok", Some(m), c.events, <<>>,
                     [self EXCEPT !.latest_measurement = Some(m)], <<m>>)

\* a variant of raw_signals that keeps its result as the latest measurement
raw_signals_stores(self, e) ==
    LET c == _command(self, <<32, 80>>, None, 2, 25, e)
    IN  IF c.status # "ok" THEN Raised(c, self)
        ELSE Res("ok", Some(<<c.ret[1][1], c.ret[1][2]>>), c.events, <<>>,
                 [self EXCEPT !.latest_measurement =
                                  Some(Measurement(c.ret[1][1], c.ret[1][2]))], <<>>)

raw_signals(self, e) ==
    LET c == _command(self, <<32, 80>>, None, 2, 25, e)
    IN  IF c.status # "ok" THEN Raised(c, self)
        ELSE Res("ok", Some(<<c.ret[1][1], c.ret[1][2]>>), c.events, <<>>, self, <<>>)

\* a variant of set_humidity whose check is off by one (>= 257)
set_humidity_limit_256(self, humidity, e) ==
    IF Trunc(humidity.num, humidity.den) > HumidityLimit + 1
    THEN Res("ValueError", None, <<>>, <<>>, self, <<>>)
    ELSE LET val == Trunc(humidity.num * HumidityScale, humidity.den)
             c == _command(self, <<32, 97>>, Some(<<val>>), 0, 0, e)
         IN  IF c.status # "ok" THEN Raised(c, self)
             ELSE Res("ok", None, c.events, <<>>, self, <<>>)

\* humidity is the rational num/den
set_humidity(self, humidity, e) ==
    IF Trunc(humidity.num, humidity.den) > HumidityLimit
    THEN Res("ValueError", None, <<>>, <<>>, self, <<>>)
    ELSE LET val == Trunc(humidity.num * HumidityScale, humidity.den)
             c == _command(self, <<32, 97>>, Some(<<val>>), 0, 0, e)
         IN  IF c.status # "ok" THEN Raised(c, self)
             ELSE Res("ok", None, c.events, <<>>, self, <<>>)

\* a variant of the polling loop without the break
RECURSIVE InitialisePoll_no_break(_, _, _, _, _)
InitialisePoll_no_break(self, bus_script, i, evs, ms) ==
    IF i >= PollLimit THEN Res("ok", None, evs, <<>>, self, ms)
    ELSE LET r == measure(self, bus_script[i + 2])
             evs2 == evs \o <<Sleep(1000)>> \o r.events
         IN  IF r.status # "ok" THEN Res(r.status, None, evs2, r.block, r.self, ms)
             ELSE InitialisePoll_no_break(r.self, bus_script, i + 1, evs2, ms \o r.measures)

\* a variant of the polling loop that raises when the 20 polls are used up
RECURSIVE InitialisePoll_timeout(_, _, _, _, _)
InitialisePoll_timeout(self, bus_script, i, evs, ms) ==
    IF i >= PollLimit THEN Res("TimeoutError", None, evs, <<>>, self, ms)
    ELSE LET r == measure(self, bus_script[i + 2])
             evs2 == evs \o <<Sleep(1000)>> \o r.events
         IN  IF r.status # "ok" THEN Res(r.status, None, evs2, r.block, r.self, ms)
             ELSE IF r.value[1].equivalent_co2 # DefaultCo2
                  THEN Res("ok", None, evs2, <<>>, r.self, ms \o r.measures)
                  ELSE InitialisePoll_timeout(r.self, bus_script, i + 1, evs2, ms \o r.measures)

\* the polling loop of initialise: iteration i (from 0) sleeps one second and
\* measures; bus_script[i + 2] is what the bus does on that measure
RECURSIVE InitialisePoll(_, _, _, _, _)
InitialisePoll(self, bus_script, i, evs, ms) ==
    IF i >= PollLimit THEN Res("ok", None, evs, <<>>, self, ms)
    ELSE LET r == measure(self, bus_script[i + 2])
             evs2 == evs \o <<Sleep(1000)>> \o r.events
         IN  IF r.status # "ok" THEN Res(r.status, None, evs2, r.block, r.self, ms)
             ELSE IF r.value[1].equivalent_co2 # DefaultCo2
                  THEN Res("ok", None, evs2, <<>>, r.self, ms \o r.measures)
                  ELSE InitialisePoll(r.self, bus_script, i + 1, evs2, ms \o r.measures)

\* a variant of initialise that waits a second before it writes the baseline
initialise_settle(self, baseline, bus_script) ==
    LET c == _command(self, <<32, 3>>, None, 0, 0, bus_script[1])
    IN  IF c.status # "ok" THEN Raised(c, self)
        ELSE IF baseline = None
             THEN InitialisePoll(self, bus_script, 0, c.events, <<>>)
             ELSE LET r == baseline_set(self, baseline[1], bus_script[2])
                  IN  Res(r.status, None, c.events \o <<Sleep(1000)>> \o r.events,
                          r.block, r.self, <<>>)

initialise(self, baseline, bus_script) ==
    LET c == _command(self, <<32, 3>>, None, 0, 0, bus_script[1])
    IN  IF c.status # "ok" THEN Raised(c, self)
        ELSE IF baseline = None
             THEN InitialisePoll(self, bus_script, 0, c.events, <<>>)
             ELSE LET r == baseline_set(self, baseline[1], bus_script[2])
                  IN  Res(r.status, None, c.events \o r.events, r.block, r.self, <<>>)

-----------------------------------------------------------------------------
(* The sensor, as far as the baseline goes: it keeps the two words of a    *)
(* baseline write in wire order (TVOC first, CO2eq second) and answers a   *)
(* baseline read with CO2eq first, TVOC second.                            *)

DeviceWrite(dev, data) ==
    IF Len(data) = 8 /\ SubSeq(data, 1, 2) = <<32, 30>>
    THEN LET d == _decode(SubSeq(data, 3, 8), 2)
         IN  IF d.status = "ok" THEN [tvoc |-> d.words[1], co2eq |-> d.words[2]]
             ELSE dev
    ELSE dev

DeviceAnswer(dev) == _encode(<<dev.co2eq, dev.tvoc>>).bytes

\* the writes of a call that reached the sensor: all but a failed one, which
\* is the last thing the call did
Delivered(evs, st) ==
    LET ws == SelectSeq(evs, LAMBDA ev : ev.t = "write")
    IN  IF st = "OSError" /\ evs # <<>> /\ evs[Len(evs)].t = "write"
        THEN SubSeq(ws, 1, Len(ws) - 1)
        ELSE ws

RECURSIVE DeviceAfter(_, _, _)
DeviceAfter(dev, ws, i) ==
    IF i > Len(ws) THEN dev ELSE DeviceAfter(DeviceWrite(dev, ws[i].data), ws, i + 1)

-----------------------------------------------------------------------------
(* Inputs: what the bus may do on a command *)

\* frame with bit p flipped; bits are numbered from 1, most significant
\* bit of the first byte first
FlipBit(frame, p) ==
    LET k == (p - 1) \div 8 + 1
        b == 7 - ((p - 1) % 8)
    IN  [frame EXCEPT ![k] = Xor(@, 2 ^ b)]

\* the frames of the word sequences ws, and damaged copies of them: a bit of
\* the first word, a bit of the first checksum, the last bit of the frame
Answers(ws) ==
    LET good == {_encode(w).bytes : w \in ws}
    IN  good \cup {FlipBit(f, p) : f \in good, p \in {1, 20, 8 * (3 * Len(CHOOSE w \in ws : TRUE))}}

Responding(ws) == {BusWriteFail, BusReadFail} \cup {BusOk(d) : d \in Answers(ws)}
Silent         == {BusOk(<<>>), BusWriteFail}

SerialWords   == {<<0, 0, 0>>, <<0, 372, 48879>>, <<65535, 65535, 65535>>,
                  <<1, 0, 0>>, <<0, 1, 0>>, <<0, 0, 1>>, <<32768, 0, 65535>>}
FeatureWords  == {<<32>>, <<34>>, <<65535>>}
BaselineWords == {<<36000, 35000>>, <<0, 65535>>}
MeasureWords  == {<<c, t>> : c \in {DefaultCo2, 401}, t \in {0, 65535}}
RawWords      == {<<13000, 18000>>, <<0, 65535>>}
BaselinePairs == {<<35000, 36000>>, <<400, 400>>}

\* humidities num/den: around 0, inside the range, around 255 and 256, beyond
Humidities ==
    {[num |-> n, den |-> 1] : n \in {-300, -256, -255, -1, 0, 1, 11, 255, 256, 257, 300, 1000}}
    \cup {[num |-> n, den |-> 2] : n \in {-513, -1, 1, 31, 509, 511, 513}}
    \cup {[num |-> n, den |-> 1000] : n \in {-4, -3, -1, 1, 4, 11570, 255001, 255999, 256001}}

\* bus scripts of initialise(): the init command, then the polls.  Poll k
\* (0: none) is the first to answer a CO2eq other than 400; poll f (0: none)
\* goes wrong the way `how` says.  The TVOC of the answers alternates, so
\* that successive readings differ.
PollAnswer(i, k, f, how) ==
    IF i = f /\ how = "write" THEN BusWriteFail
    ELSE IF i = f /\ how = "read" THEN BusReadFail
    ELSE LET good == _encode(IF i = k THEN <<401, 65535>> ELSE <<DefaultCo2, i % 2>>).bytes
         IN  BusOk(IF i = f THEN FlipBit(good, 20) ELSE good)

PollScript(k, f, how) ==
    <<BusOk(<<>>)>> \o [i \in 1..(PollLimit + MaxExtra) |-> PollAnswer(i, k, f, how)]

PollScripts ==
    {PollScript(k, 0, "none") : k \in 0..(PollLimit + MaxExtra)}
    \cup {PollScript(0, f, how) : f \in 1..(PollLimit + MaxExtra), how \in {"write", "read", "crc"}}
    \cup {PollScript(k, k + 1, how) : k \in {1, PollLimit}, how \in {"write", "read", "crc"}}
    \cup {<<BusWriteFail>> \o [i \in 1..(PollLimit + MaxExtra) |-> PollAnswer(i, 0, 0, "none")]}

BaselineScripts == {<<a, b>> : a \in Silent, b \in Silent}

-----------------------------------------------------------------------------
(* The state machine *)

Self == [bus |-> bus, address |-> address, latest_measurement |-> latest_measurement]

DriverInit ==
    /\ bus = "bus"
    /\ address = DefaultAddress
    /\ latest_measurement = None
    /\ dev_baseline = [tvoc |-> 0, co2eq |-> 0]
    /\ pc = "idle"
    /\ op = "none"
    /\ arg = None
    /\ script = <<>>
    /\ status = "ok"
    /\ value = None
    /\ events = <<>>
    /\ err_block = <<>>
    /\ measured = None
    /\ set_pair = None
    /\ after_failure = FALSE

\* the callers of the step-level specification: none is in a call
Callers == {"A", "B"}

NoCallers ==
    /\ serialised = TRUE
    /\ th = [t \in Callers |-> [pc |-> "idle", op |-> "none", n |-> 0]]
    /\ wire = <<>>

Init ==
    /\ DriverInit
    /\ NoCallers
    /\ c_pc = "off"
    /\ c_words = <<>>
    /\ c_frame = <<>>
    /\ c_flip = 0
    /\ c_out = DecOk(<<>>)

\* a call of operation `name` with argument a under bus script sc ended as r
Finish(name, a, sc, r, sp) ==
    /\ pc' = "done"
    /\ op' = name
    /\ arg' = a
    /\ script' = sc
    /\ status' = r.status
    /\ value' = r.value
    /\ events' = r.events
    /\ err_block' = r.block
    /\ bus' = r.self.bus
    /\ address' = r.self.address
    /\ latest_measurement' = r.self.latest_measurement
    /\ dev_baseline' = DeviceAfter(dev_baseline, Delivered(r.events, r.status), 1)
    /\ measured' = IF r.measures = <<>> THEN measured
                   ELSE Some(r.measures[Len(r.measures)])
    /\ set_pair' = IF r.status = "ok" THEN sp ELSE set_pair
    /\ UNCHANGED <<after_failure, codec, callers>>

Call_serial_id ==
    /\ pc = "idle"
    /\ \E e \in Responding(SerialWords) :
          Finish("serial_id", None, <<e>>, serial_id(Self, e), set_pair)

Call_feature_set ==
    /\ pc = "idle"
    /\ \E e \in Responding(FeatureWords) :
          Finish("feature_set", None, <<e>>, feature_set(Self, e), set_pair)

Call_baseline_get ==
    /\ pc = "idle"
    /\ \E e \in Responding(BaselineWords) \cup {BusOk(DeviceAnswer(dev_baseline))} :
          Finish("baseline_get", None, <<e>>, baseline_get(Self, e), set_pair)

Call_baseline_set ==
    /\ pc = "idle"
    /\ \E values \in BaselinePairs, e \in Silent :
          Finish("baseline_set", values, <<e>>, baseline_set(Self, values, e), Some(values))

Call_measure ==
    /\ pc = "idle"
    /\ \E e \in Responding(MeasureWords) :
          Finish("measure", None, <<e>>, measure(Self, e), set_pair)

Call_raw_signals ==
    /\ pc = "idle"
    /\ \E e \in Responding(RawWords) :
          Finish("raw_signals", None, <<e>>, raw_signals(Self, e), set_pair)

Call_set_humidity ==
    /\ pc = "idle"
    /\ \E humidity \in Humidities, e \in Silent :
          Finish("set_humidity", humidity, <<e>>, set_humidity(Self, humidity, e), set_pair)

\* baseline is None (the sensor is polled) or Some(values)
Call_initialise ==
    /\ pc = "idle"
    /\ \E baseline \in {None} \cup {Some(values) : values \in BaselinePairs} :
          \E sc \in (IF baseline = None THEN PollScripts ELSE BaselineScripts) :
              Finish("initialise", baseline, sc, initialise(Self, baseline, sc),
                     IF baseline = None THEN set_pair ELSE baseline)

\* the caller takes the result
Return ==
    /\ pc = "done"
    /\ pc' = "idle"
    /\ op' = "none"
    /\ arg' = None
    /\ script' = <<>>
    /\ status' = "ok"
    /\ value' = None
    /\ events' = <<>>
    /\ err_block' = <<>>
    /\ after_failure' = (status = "OSError")
    /\ UNCHANGED <<session, dev_baseline, measured, set_pair, codec, callers>>

Next ==
    \/ Call_serial_id
    \/ Call_feature_set
    \/ Call_baseline_get
    \/ Call_baseline_set
    \/ Call_measure
    \/ Call_raw_signals
    \/ Call_set_humidity
    \/ Call_initialise
    \/ Return

Spec == Init /\ [][Next]_vars

-----------------------------------------------------------------------------
(* The codec on its own: _encode is applied to a sequence of 16-bit words, *)
(* one bit of the frame may be flipped on the way, and _decode is applied  *)
(* to what arrives, with the number of words that were sent.               *)

CodecWords == {0, 1, 400, 32768, 48879, 65535}
WordSeqs   == UNION {[1..n -> CodecWords] : n \in 0..MaxWords}

CodecInit ==
    /\ DriverInit
    /\ NoCallers
    /\ c_pc = "start"
    /\ c_words \in WordSeqs
    /\ c_frame = <<>>
    /\ c_flip = 0
    /\ c_out = DecOk(<<>>)

Encode ==
    /\ c_pc = "start"
    /\ c_frame' = _encode(c_words).bytes
    /\ c_pc' = "encoded"
    /\ UNCHANGED <<c_words, c_flip, c_out, driver, callers>>

Corrupt ==
    /\ c_pc = "encoded"
    /\ \E p \in 1..(8 * Len(c_frame)) :
          /\ c_frame' = FlipBit(c_frame, p)
          /\ c_flip' = p
    /\ c_pc' = "corrupted"
    /\ UNCHANGED <<c_words, c_out, driver, callers>>

Decode ==
    /\ c_pc \in {"encoded", "corrupted"}
    /\ c_out' = _decode(c_frame, Len(c_words))
    /\ c_pc' = "decoded"
    /\ UNCHANGED <<c_words, c_frame, c_flip, driver, callers>>

CodecNext == Encode \/ Corrupt \/ Decode

SpecCodec == CodecInit /\ [][CodecNext]_vars

-----------------------------------------------------------------------------
(* _decode on frames that arrive damaged in any of their blocks: each      *)
(* block is as encoded, or has a bit of its data flipped, or a bit of its  *)
(* checksum.  (The damage is in c_frame itself; c_flip is not used.)       *)

BlockStates == {"good", "data", "crc"}

Damaged(frame, how) ==
    [j \in 1..Len(frame) |->
        LET i == (j - 1) \div 3 + 1
            k == (j - 1) % 3
        IN  IF (how[i] = "data" /\ k = 1) \/ (how[i] = "crc" /\ k = 2)
            THEN Xor(frame[j], 1)
            ELSE frame[j]]

ReceiveInit ==
    /\ DriverInit
    /\ NoCallers
    /\ c_pc = "received"
    /\ c_words \in WordSeqs
    /\ c_frame \in {Damaged(_encode(c_words).bytes, how) :
                       how \in [1..Len(c_words) -> BlockStates]}
    /\ c_flip = 0
    /\ c_out = DecOk(<<>>)

DecodeReceived ==
    /\ c_pc = "received"
    /\ c_out' = _decode(c_frame, Len(c_words))
    /\ c_pc' = "checked"
    /\ UNCHANGED <<c_words, c_frame, c_flip, driver, callers>>

SpecDecode == ReceiveInit /\ [][DecodeReceived]_vars

-----------------------------------------------------------------------------
(* _crc on its own: it is applied to every 2-byte input, and the checksum  *)
(* is appended to the data, as _encode does it.                            *)

ChecksumInit ==
    /\ DriverInit
    /\ NoCallers
    /\ c_pc = "data"
    /\ c_words = <<>>
    /\ c_frame \in {<<a, b>> : a \in 0..255, b \in 0..255}
    /\ c_flip = 0
    /\ c_out = DecOk(<<>>)

Checksum ==
    /\ c_pc = "data"
    /\ c_frame' = c_frame \o _crc(c_frame)
    /\ c_pc' = "summed"
    /\ UNCHANGED <<c_words, c_flip, c_out, driver, callers>>

SpecCrc == ChecksumInit /\ [][Checksum]_vars

-----------------------------------------------------------------------------
(* _command step by step, with two callers on the same session.  _command  *)
(* takes no lock: between its write, its sleep and its read another caller *)
(* may run.  Whether the callers run their calls one at a time is theirs   *)
(* to decide (serialised).  The bus accepts every transaction here, and    *)
(* what the read delivers is left out: it is the sensor's answer to an     *)
(* order of commands that only the sensor defines.                         *)

\* the operations that expect a response, as they call _command
Commands ==
    [serial_id    |-> [command |-> <<54, 130>>, read_parameters |-> 3, delay |-> 1],
     feature_set  |-> [command |-> <<32, 47>>,  read_parameters |-> 1, delay |-> 2],
     baseline_get |-> [command |-> <<32, 21>>,  read_parameters |-> 2, delay |-> 10],
     measure      |-> [command |-> <<32, 8>>,   read_parameters |-> 2, delay |-> 22],
     raw_signals  |-> [command |-> <<32, 80>>,  read_parameters |-> 2, delay |-> 25]]

\* a variant of the order of _command that reads before it writes
StepAfter_read_first(step) ==
    CASE step = "call"  -> "read"
      [] step = "read"  -> "sleep"
      [] step = "sleep" -> "write"
      [] step = "write" -> "return"

\* the order of the statements of _command
StepAfter(step) ==
    CASE step = "call"  -> "write"
      [] step = "write" -> "sleep"
      [] step = "sleep" -> "read"
      [] step = "read"  -> "return"

\* caller t, in its call number n, did ev
On(t, ev) == [who |-> t, n |-> th[t].n, ev |-> ev]

Started == th["A"].n + th["B"].n

CallersInit ==
    /\ DriverInit
    /\ serialised \in BOOLEAN
    /\ th = [t \in Callers |-> [pc |-> "idle", op |-> "none", n |-> 0]]
    /\ wire = <<>>
    /\ c_pc = "off"
    /\ c_words = <<>>
    /\ c_frame = <<>>
    /\ c_flip = 0
    /\ c_out = DecOk(<<>>)

\* caller t calls an operation, which calls _command
T_Call(t) ==
    /\ th[t].pc = "idle"
    /\ Started < MaxCalls
    /\ serialised => \A u \in Callers \ {t} : th[u].pc = "idle"
    /\ \E name \in DOMAIN Commands :
          th' = [th EXCEPT ![t] = [pc |-> StepAfter("call"), op |-> name, n |-> @.n + 1]]
    /\ UNCHANGED <<serialised, wire, driver, codec>>

\* self.bus.i2c_rdwr(i2c_msg.write(self.address, command))
T_Write(t) ==
    /\ th[t].pc = "write"
    /\ wire' = Append(wire, On(t, Write(address, Commands[th[t].op].command)))
    /\ th' = [th EXCEPT ![t].pc = StepAfter("write")]
    /\ UNCHANGED <<serialised, driver, codec>>

\* sleep(delay)
T_Sleep(t) ==
    /\ th[t].pc = "sleep"
    /\ wire' = Append(wire, On(t, Sleep(Commands[th[t].op].delay)))
    /\ th' = [th EXCEPT ![t].pc = StepAfter("sleep")]
    /\ UNCHANGED <<serialised, driver, codec>>

\* self.bus.i2c_rdwr(read_cmd)
T_Read(t) ==
    /\ th[t].pc = "read"
    /\ wire' = Append(wire, On(t, Read(address, Commands[th[t].op].read_parameters * 3)))
    /\ th' = [th EXCEPT ![t].pc = StepAfter("read")]
    /\ UNCHANGED <<serialised, driver, codec>>

\* _command returns, and the operation returns to its caller
T_Return(t) ==
    /\ th[t].pc = "return"
    /\ th' = [th EXCEPT ![t] = [pc |-> "idle", op |-> "none", n |-> @.n]]
    /\ UNCHANGED <<serialised, wire, driver, codec>>

CallersNext ==
    \E t \in Callers :
        \/ T_Call(t)
        \/ T_Write(t)
        \/ T_Sleep(t)
        \/ T_Read(t)
        \/ T_Return(t)

SpecCallers == CallersInit /\ [][CallersNext]_vars

-----------------------------------------------------------------------------
(* What the claims are stated with *)

Done(name) == pc = "done" /\ op = name

\* the call went on to the bus: it returned, or a bus transaction failed
Accepted == status \in {"ok", "OSError"}

\* word i of a frame: the big-endian value of the two data bytes of block i
WordAt(data, i) == data[3 * i - 2] * 256 + data[3 * i - 1]

\* write, settling sleep, read of a command that expects `words` words
Exchange(opcode, words, ms) ==
    <<Write(address, opcode), Sleep(ms), Read(address, 3 * words)>>

RECURSIVE Repeat(_, _)
Repeat(s, n) == IF n = 0 THEN <<>> ELSE s \o Repeat(s, n - 1)

\* the reference CRC-8 (polynomial 0x31, initial value 0xFF, no reflection, no
\* final XOR) of the bytes a, b: the accumulator is kept to 8 bits at every
\* shift
RefShift(acc) ==
    IF acc >= 128 THEN Xor((2 * acc) % 256, 49) ELSE (2 * acc) % 256

RefByte(acc, byte) ==
    RefShift(RefShift(RefShift(RefShift(RefShift(RefShift(RefShift(RefShift(
        Xor(acc, byte)))))))))

RefCrc(a, b) == RefByte(RefByte(255, a), b)

\* block i (from 1) of a frame, and whether its checksum is wrong
Block(data, i)    == SubSeq(data, 3 * i - 2, 3 * i)
BadBlock(data, i) == RefCrc(data[3 * i - 2], data[3 * i - 1]) # data[3 * i]
BadBlocks(data)   == {i \in 1..(Len(data) \div 3) : BadBlock(data, i)}

\* the bus delivered a response, and a block of it has a wrong checksum
BadAnswer(e) == ~e.wfail /\ ~e.rfail /\ BadBlocks(e.data) # {}

-----------------------------------------------------------------------------
(* C1: set_humidity(15.50) performs exactly one bus transaction, the write *)
(* of the bytes 20 61 0F 80 62, and no read.                               *)
(* The code computes int(15.5 * 255) = 3952 = 0x0F70 and writes            *)
(* 20 61 0F 70 E0; tests/test_sgp30.py expects 0x0F80 = 15.5 * 256.        *)
C1_Humidity1550 ==
    (Done("set_humidity") /\ arg = [num |-> 31, den |-> 2]) =>
        events = <<Write(address, <<32, 97, 15, 128, 98>>)>>

(* C2: for every humidity that set_humidity accepts it issues exactly one  *)
(* write, the opcode 0x2061 followed by encode([floor(value * 255)]), the  *)
(* word fits in 16 bits, and no sleep and no read follow.                  *)
(* Fails for the negative values above -1/255, which the code accepts      *)
(* (C4) and truncates to the word 0, while floor gives -1.                 *)
C2_HumidityWord ==
    (Done("set_humidity") /\ Accepted) =>
        LET word == (arg.num * 255) \div arg.den
        IN  /\ word \in 0..65535
            /\ events = <<Write(address, <<32, 97>> \o _encode(<<word>>).bytes)>>

(* C3: for every humidity whose integer part exceeds 255, set_humidity     *)
(* raises ValueError and does nothing on the bus (no write, no sleep, no   *)
(* read), and the latest measurement stays as it was.                      *)
C3_RejectAbove255 ==
    [][(pc = "idle" /\ op' = "set_humidity" /\ arg'.num >= 256 * arg'.den) =>
           /\ status' = "ValueError"
           /\ events' = <<>>
           /\ value' = None
           /\ latest_measurement' = latest_measurement]_vars

C3_Witness ==
    /\ Done("set_humidity")
    /\ arg.num > 256 * arg.den
    /\ arg.den > 1
    /\ status = "ValueError"
    /\ latest_measurement # None

(* C4: set_humidity accepts a value exactly when 0 <= value <= 255; every  *)
(* value outside that range fails before any bus I/O, so no write is ever  *)
(* issued for it.                                                          *)
(* The code checks int(humidity) > 255 only: 255.5 and -0.001 are written. *)
C4_HumidityDomain ==
    Done("set_humidity") =>
        LET inside == 0 <= arg.num /\ arg.num <= 255 * arg.den
        IN  /\ inside => Accepted
            /\ ~inside => (~Accepted /\ events = <<>>)

(* C5: round trip: for every sequence W of 16-bit words, the empty one     *)
(* included, _decode(_encode(W), len(W)) returns W, in order, and raises   *)
(* nothing.                                                                *)
C5_RoundTrip ==
    (c_pc = "decoded" /\ c_flip = 0) =>
        /\ c_out.status = "ok"
        /\ c_out.words = c_words

C5_Witness ==
    /\ c_pc = "decoded"
    /\ c_flip = 0
    /\ Len(c_words) = 2
    /\ c_words[1] # c_words[2]
    /\ c_words[1] \div 256 # c_words[1] % 256
    /\ c_out.words = c_words

(* C6: corruption detection: in every frame that _encode produced, a flip  *)
(* of any one bit, of a data byte or of a checksum byte, of any block,     *)
(* makes _decode raise InvalidCRC; no word is decoded from it.             *)
C6_SingleBitDetected ==
    (c_pc = "decoded" /\ c_flip # 0) =>
        /\ c_out.status = "InvalidCRC"
        /\ c_out.words = <<>>

\* the flipped bit is in the checksum byte of the second block
C6_Witness ==
    /\ c_pc = "decoded"
    /\ c_flip > 24
    /\ (c_flip - 1) % 24 >= 16
    /\ c_out.status = "InvalidCRC"

(* C7: baseline ordering: the setter writes the opcode 0x201E followed by  *)
(* the words in (tvoc, co2eq) order; the getter returns the two response   *)
(* words in (co2eq, tvoc) order; so with a sensor that keeps what was      *)
(* written in wire order and answers in read order, a get after a set      *)
(* returns the pair that was set, not the swapped one.                     *)
C7_BaselineOrdering ==
    /\ Done("baseline_set") =>
           events = <<Write(address, <<32, 30>> \o _encode(<<arg[2], arg[1]>>).bytes)>>
    /\ (Done("baseline_get") /\ status = "ok") =>
           value = Some(<<WordAt(script[1].data, 1), WordAt(script[1].data, 2)>>)
    /\ (Done("baseline_get") /\ status = "ok" /\ set_pair # None
            /\ script[1].data = DeviceAnswer(dev_baseline)) =>
           value = set_pair

C7_Witness ==
    /\ Done("baseline_get")
    /\ status = "ok"
    /\ set_pair # None
    /\ script[1].data = DeviceAnswer(dev_baseline)
    /\ value[1][1] # value[1][2]
    /\ value = set_pair

(* C8: command sequencing: every operation that expects a response         *)
(* (serial_id 0x3682, 3 words, 1 ms; feature_set 0x202F, 1 word, 2 ms;     *)
(* baseline get 0x2015, 2 words, 10 ms; measure 0x2008, 2 words, 22 ms;    *)
(* raw_signals 0x2050, 2 words, 25 ms) does exactly write(opcode),         *)
(* sleep(its delay), read(3 bytes per word), in that order and with        *)
(* nothing between; every operation that expects none (init 0x2003,        *)
(* baseline set 0x201E, set humidity 0x2061) does exactly one write, no    *)
(* settling sleep and no read, and returns nothing.  (A write that the bus *)
(* refuses ends the call: that case is left to the bus-failure claim.)     *)
C8_Exchanges ==
    [serial_id    |-> Exchange(<<54, 130>>, 3, 1),
     feature_set  |-> Exchange(<<32, 47>>, 1, 2),
     baseline_get |-> Exchange(<<32, 21>>, 2, 10),
     measure      |-> Exchange(<<32, 8>>, 2, 22),
     raw_signals  |-> Exchange(<<32, 80>>, 2, 25)]

\* the one write of a command without response: the opcode and `words` words
C8_OneWrite(opcode, words) ==
    /\ Len(events) = 1
    /\ events[1].t = "write"
    /\ events[1].addr = address
    /\ Len(events[1].data) = 2 + 3 * words
    /\ SubSeq(events[1].data, 1, 2) = opcode

C8_CommandSequencing ==
    pc = "done" =>
        /\ (op \in DOMAIN C8_Exchanges /\ ~script[1].wfail) =>
               /\ events = C8_Exchanges[op]
               /\ status = "ok" => value # None
        /\ op = "baseline_set" => (C8_OneWrite(<<32, 30>>, 2) /\ value = None)
        /\ (op = "set_humidity" /\ Accepted) => (C8_OneWrite(<<32, 97>>, 1) /\ value = None)
        /\ op = "initialise" =>
               /\ events[1] = Write(address, <<32, 3>>)
               /\ Len(events) > 1 => events[2].t \in {"write", "sleep"}
               /\ Len(events) > 1 => events[2] \notin {Sleep(0), Sleep(22)}
               /\ value = None

C8_Witness ==
    /\ Done("raw_signals")
    /\ status = "ok"
    /\ events = <<Write(address, <<32, 80>>), Sleep(25), Read(address, 6)>>
    /\ value = Some(<<13000, 18000>>)

(* C9: measure() takes its 2-word response as (equivalent_co2, tvoc), in   *)
(* that order, returns that measurement and stores the same value as the   *)
(* latest measurement; in every reachable state the latest measurement is  *)
(* absent (no measure has succeeded since construction) or is what the     *)
(* most recent successful measure() returned.                              *)
C9_LatestMeasurement ==
    /\ (Done("measure") /\ status = "ok") =>
           /\ value = Some([equivalent_co2 |-> WordAt(script[1].data, 1),
                            tvoc |-> WordAt(script[1].data, 2)])
           /\ latest_measurement = value
    /\ latest_measurement = measured

C9_Witness ==
    /\ Done("measure")
    /\ status = "ok"
    /\ value = Some([equivalent_co2 |-> 401, tvoc |-> 65535])
    /\ latest_measurement = value

(* C10: initialise() without a baseline writes the init command 0x2003     *)
(* first, then polls: each poll is a 1-second sleep followed by one        *)
(* measure(); polling stops after the first poll whose equivalent_co2 is   *)
(* not 400 and never exceeds 20 polls.  So there are min(k, 20) measure    *)
(* commands, k being the first poll that answers other than 400, and when  *)
(* the first poll does, there is one measure and no sleep after it.        *)
(* (A poll that raises ends the call before that.)                         *)

\* the polls the call made
C10_Polls ==
    Cardinality({i \in 1..Len(events) : events[i] = Write(address, <<32, 8>>)})

\* k: the first poll the sensor answers with a CO2eq other than 400 (0: none)
C10_FirstOther ==
    LET hits == {i \in 1..(Len(script) - 1) :
                    /\ ~script[i + 1].wfail
                    /\ ~script[i + 1].rfail
                    /\ WordAt(script[i + 1].data, 1) # 400}
    IN  IF hits = {} THEN 0 ELSE CHOOSE i \in hits : \A j \in hits : i <= j

C10_PollEvents ==
    <<Sleep(1000), Write(address, <<32, 8>>), Sleep(22), Read(address, 6)>>

C10_Polling ==
    (Done("initialise") /\ arg = None) =>
        /\ C10_Polls <= 20
        /\ events[1] = Write(address, <<32, 3>>)
        /\ status = "ok" =>
               LET k == C10_FirstOther
                   n == IF k = 0 THEN 20 ELSE Min(k, 20)
               IN  events = <<Write(address, <<32, 3>>)>> \o Repeat(C10_PollEvents, n)

\* the first poll already answers other than 400
C10_Witness ==
    /\ Done("initialise")
    /\ arg = None
    /\ status = "ok"
    /\ C10_FirstOther = 1
    /\ C10_Polls = 1
    /\ events[Len(events)] = Read(address, 6)

(* C11: initialise(baseline) with a baseline supplied issues exactly two   *)
(* bus transactions, both writes and in this order: the init command       *)
(* 0x2003, then the baseline-set command 0x201E with the words in (tvoc,   *)
(* co2eq) order; it performs no measure poll, no sleep and no read-back of *)
(* the baseline, and leaves the latest measurement unchanged.  (When the   *)
(* bus refuses a write the call ends there, with the writes so far.)       *)
C11_TwoWrites(values) ==
    <<Write(address, <<32, 3>>),
      Write(address, <<32, 30>> \o PackH(values[2]) \o _crc(PackH(values[2]))
                                \o PackH(values[1]) \o _crc(PackH(values[1])))>>

C11_BaselineFastPath ==
    [][(pc = "idle" /\ op' = "initialise" /\ arg' # None) =>
           /\ status' = "ok" => events' = C11_TwoWrites(arg'[1])
           /\ status' # "ok" =>
                  \E n \in 1..2 : events' = SubSeq(C11_TwoWrites(arg'[1]), 1, n)
           /\ value' = None
           /\ latest_measurement' = latest_measurement]_vars

C11_Witness ==
    /\ Done("initialise")
    /\ arg = Some(<<35000, 36000>>)
    /\ status = "ok"
    /\ Len(events) = 2
    /\ events[2].data = <<32, 30, 140, 160, 234, 136, 184, 147>>
    /\ latest_measurement # None

(* C12: no retry and no partial success on a checksum failure: when the    *)
(* response to a response-expecting operation contains a block with a      *)
(* wrong checksum, the operation raises InvalidCRC after exactly one write *)
(* and one read, nothing follows on the bus, no value is returned and the  *)
(* latest measurement stays as it was.  In initialise() the failing poll   *)
(* is a measure() like any other: it is the last thing the call does (the  *)
(* remaining polls are not made), and the latest measurement is what the   *)
(* polls before it left.                                                   *)
C12_NoRetryOnBadChecksum ==
    [][pc = "idle" =>
           /\ op' \in DOMAIN C8_Exchanges =>
                  /\ BadAnswer(script'[1]) <=> status' = "InvalidCRC"
                  /\ status' = "InvalidCRC" =>
                         /\ events' = C8_Exchanges[op']
                         /\ value' = None
                         /\ latest_measurement' = latest_measurement
           /\ (op' = "initialise" /\ status' = "InvalidCRC") =>
                  LET n == C10_Polls'
                  IN  /\ n \in 1..20
                      /\ BadAnswer(script'[n + 1])
                      /\ events' = <<Write(address, <<32, 3>>)>> \o Repeat(C10_PollEvents, n)
                      /\ value' = None
                      /\ latest_measurement' =
                             IF n = 1 THEN latest_measurement
                             ELSE Some([equivalent_co2 |-> WordAt(script'[n].data, 1),
                                        tvoc |-> WordAt(script'[n].data, 2)])
           /\ status' = "InvalidCRC" =>
                  op' \in DOMAIN C8_Exchanges \cup {"initialise"}]_vars

\* the third poll of initialise() is answered with a wrong checksum
C12_Witness ==
    /\ Done("initialise")
    /\ status = "InvalidCRC"
    /\ C10_Polls = 3
    /\ Len(events) = 13
    /\ latest_measurement = Some([equivalent_co2 |-> 400, tvoc |-> 0])

(* C13: for every 2-byte input, _crc returns a single byte in 0..255 equal *)
(* to the reference CRC-8 (polynomial 0x31, initial value 0xFF, no         *)
(* reflection, no final XOR) computed with an accumulator masked to 8 bits *)
(* at every shift, even though the code lets the accumulator grow beyond 8 *)
(* bits and masks only once at the end; in particular crc(01 90) = 4C,     *)
(* crc(00 00) = 81 and crc(BE EF) = 92.                                    *)
C13_CrcReference ==
    c_pc = "summed" =>
        /\ Len(c_frame) = 3
        /\ c_frame[3] \in 0..255
        /\ c_frame[3] = RefCrc(c_frame[1], c_frame[2])
        /\ SubSeq(c_frame, 1, 2) = <<1, 144>> => c_frame[3] = 76
        /\ SubSeq(c_frame, 1, 2) = <<0, 0>> => c_frame[3] = 129
        /\ SubSeq(c_frame, 1, 2) = <<190, 239>> => c_frame[3] = 146

\* BE EF: the unmasked accumulator of the code is far beyond 8 bits here
C13_Witness ==
    /\ c_pc = "summed"
    /\ c_frame = <<190, 239, 146>>
    /\ CrcByte(CrcByte(CrcInit, 190), 239) > 65535

(* C14: for every sequence of 16-bit words, _encode returns a frame of     *)
(* exactly 3 * len(words) bytes in which block i holds the big-endian two  *)
(* bytes of word i followed by the checksum of those two bytes, in input   *)
(* order, and it never fails (a failed _encode leaves no frame, so the     *)
(* length shows it); in particular encode([0]) = 00 00 81 and              *)
(* encode([48879, 0]) = BE EF 92 00 00 81.                                 *)
C14_EncodeFrame ==
    c_pc = "encoded" =>
        /\ Len(c_frame) = 3 * Len(c_words)
        /\ \A i \in 1..Len(c_words) :
               /\ c_frame[3 * i - 2] = c_words[i] \div 256
               /\ c_frame[3 * i - 1] = c_words[i] % 256
               /\ c_frame[3 * i] = RefCrc(c_frame[3 * i - 2], c_frame[3 * i - 1])
        /\ c_words = <<0>> => c_frame = <<0, 0, 129>>
        /\ c_words = <<48879, 0>> => c_frame = <<190, 239, 146, 0, 0, 129>>

C14_Witness ==
    /\ c_pc = "encoded"
    /\ c_words = <<48879, 0>>
    /\ c_frame = <<190, 239, 146, 0, 0, 129>>

(* C15: serial_id composes its three response words as                     *)
(* (w0 << 32) | (w1 << 16) | w2: the result lies in 0..2^48-1, the         *)
(* addition used by the code equals the bitwise OR (each word is one       *)
(* 16-bit field of the result), and distinct word triples give distinct    *)
(* serial ids (the words are read back from the fields); feature_set       *)
(* returns its single response word unchanged.  A serial id is the         *)
(* sequence of its base-65536 digits, least significant first.             *)
C15_SerialId ==
    /\ (Done("serial_id") /\ status = "ok") =>
           LET id == value[1]
               field(i) == IF i <= Len(id) THEN id[i] ELSE 0
           IN  /\ Len(id) <= 3
               /\ \A i \in 1..Len(id) : id[i] \in 0..65535
               /\ id # <<>> => id[Len(id)] # 0
               /\ field(3) = WordAt(script[1].data, 1)
               /\ field(2) = WordAt(script[1].data, 2)
               /\ field(1) = WordAt(script[1].data, 3)
    /\ (Done("feature_set") /\ status = "ok") =>
           value = Some(WordAt(script[1].data, 1))

\* the serial id 0x8000 0000 FFFF, beyond 32 bits
C15_Witness ==
    /\ Done("serial_id")
    /\ status = "ok"
    /\ script[1].data = <<128, 0, RefCrc(128, 0), 0, 0, 129, 255, 255, RefCrc(255, 255)>>
    /\ value = Some(<<65535, 0, 32768>>)

(* C16: _decode fails fast on the first bad block: for a frame of n blocks *)
(* in which one or more blocks have a wrong checksum, it raises InvalidCRC *)
(* that reports the data bytes and the checksum byte of the lowest-indexed *)
(* bad block, and it returns no words at all, not even the words of the    *)
(* valid blocks that precede the bad one.                                  *)
C16_FailFast ==
    (c_pc = "checked" /\ BadBlocks(c_frame) # {}) =>
        LET first == CHOOSE i \in BadBlocks(c_frame) : \A j \in BadBlocks(c_frame) : i <= j
        IN  /\ c_out.status = "InvalidCRC"
            /\ c_out.block = Block(c_frame, first)
            /\ c_out.words = <<>>

\* both blocks are bad, in different ways; the first is the one reported
C16_Witness ==
    /\ c_pc = "checked"
    /\ c_words = <<48879, 400>>
    /\ c_frame = <<190, 238, 146, 1, 144, 77>>
    /\ c_out.status = "InvalidCRC"
    /\ c_out.block = <<190, 238, 146>>

(* C17: a bus failure is propagated without retry: if the write            *)
(* transaction of an operation fails, the operation issues no settling     *)
(* sleep and no read and raises the I/O error; if the read transaction     *)
(* fails, no second read or write is issued; in both cases the latest      *)
(* measurement is unchanged, and a later operation starts again with a     *)
(* fresh write of its own opcode.  In initialise() the failing command is  *)
(* the last thing the call does, and the latest measurement is what the    *)
(* polls before it left.                                                   *)
C17_Opcode ==
    [serial_id    |-> <<54, 130>>,
     feature_set  |-> <<32, 47>>,
     baseline_get |-> <<32, 21>>,
     baseline_set |-> <<32, 30>>,
     measure      |-> <<32, 8>>,
     raw_signals  |-> <<32, 80>>,
     set_humidity |-> <<32, 97>>,
     initialise   |-> <<32, 3>>]

\* the write transactions of the call
C17_Writes == Cardinality({i \in 1..Len(events) : events[i].t = "write"})

\* a call of one command
C17_OneCommand ==
    LET e == script'[1]
    IN  /\ (status' \notin {"ValueError", "struct.error"}) =>
               ((e.wfail \/ e.rfail) <=> status' = "OSError")
        /\ status' = "OSError" =>
               /\ e.wfail =>
                      /\ Len(events') = 1
                      /\ events'[1].t = "write"
               /\ ~e.wfail => events' = C8_Exchanges[op']
               /\ value' = None
               /\ latest_measurement' = latest_measurement

\* initialise: command w of the call is the one that failed
C17_Initialise ==
    status' = "OSError" =>
        LET w == C17_Writes'
            e == script'[w]
            init == <<Write(address, <<32, 3>>)>>
        IN  /\ e.wfail \/ e.rfail
            /\ \A i \in 1..(w - 1) : ~script'[i].wfail /\ ~script'[i].rfail
            /\ value' = None
            /\ w = 1 => events' = init
            /\ (w > 1 /\ arg' # None) =>
                   /\ Len(events') = 2
                   /\ events'[2].t = "write"
                   /\ latest_measurement' = latest_measurement
            /\ (w > 1 /\ arg' = None) =>
                   /\ events' = init \o Repeat(C10_PollEvents, w - 2)
                                     \o (IF e.wfail THEN SubSeq(C10_PollEvents, 1, 2)
                                                    ELSE C10_PollEvents)
                   /\ latest_measurement' =
                          IF w = 2 THEN latest_measurement
                          ELSE Some([equivalent_co2 |-> WordAt(script'[w - 1].data, 1),
                                     tvoc |-> WordAt(script'[w - 1].data, 2)])

C17_BusFailure ==
    [][(pc = "idle" /\ op' \in DOMAIN C17_Opcode) =>
           /\ op' # "initialise" => C17_OneCommand
           /\ op' = "initialise" => C17_Initialise
           /\ (after_failure /\ events' # <<>>) =>
                  /\ events'[1].t = "write"
                  /\ SubSeq(events'[1].data, 1, 2) = C17_Opcode[op']]_vars

\* a measure() whose read fails, right after a call that raised OSError
C17_Witness ==
    /\ Done("measure")
    /\ after_failure
    /\ status = "OSError"
    /\ script[1].rfail
    /\ events = <<Write(address, <<32, 8>>), Sleep(22), Read(address, 6)>>
    /\ latest_measurement # None

(* C18: initialise() without a baseline always terminates: when every poll *)
(* returns equivalent_co2 = 400 it stops after exactly 20 polls (1 init    *)
(* write plus 20 write/read pairs, 20 one-second sleeps) and returns       *)
(* normally, raising no error and giving no indication that the sensor     *)
(* never left the default reading; the latest measurement is then the 20th *)
(* reading, with equivalent_co2 = 400.                                     *)

\* the bus accepts the init command and answers each of the first 20 polls
\* with a valid frame whose CO2eq is 400
C18_AllDefault ==
    /\ Len(script) >= 21
    /\ ~script[1].wfail
    /\ \A i \in 2..21 :
           /\ ~script[i].wfail
           /\ ~script[i].rfail
           /\ BadBlocks(script[i].data) = {}
           /\ WordAt(script[i].data, 1) = 400

C18_Count(ev) == Cardinality({i \in 1..Len(events) : events[i] = ev})

C18_TwentyPolls ==
    (Done("initialise") /\ arg = None /\ C18_AllDefault) =>
        /\ status = "ok"
        /\ value = None
        /\ events = <<Write(address, <<32, 3>>)>> \o Repeat(C10_PollEvents, 20)
        /\ C18_Count(Write(address, <<32, 3>>)) = 1
        /\ C18_Count(Write(address, <<32, 8>>)) = 20
        /\ C18_Count(Read(address, 6)) = 20
        /\ C18_Count(Sleep(1000)) = 20
        /\ latest_measurement = Some([equivalent_co2 |-> 400,
                                      tvoc |-> WordAt(script[21].data, 2)])

\* the sensor would have answered the 21st poll with 401; the 19th and the
\* 20th reading differ
C18_Witness ==
    /\ Done("initialise")
    /\ arg = None
    /\ C18_AllDefault
    /\ ~script[22].wfail
    /\ ~script[22].rfail
    /\ WordAt(script[22].data, 1) = 401
    /\ WordAt(script[20].data, 2) # WordAt(script[21].data, 2)
    /\ status = "ok"
    /\ C10_Polls = 20

(* C19: frame condition on the session: the latest measurement is changed  *)
(* only by a successful measure(), called directly or by the polling of    *)
(* initialise(); serial_id, feature_set, baseline get, baseline set,       *)
(* raw_signals, set_humidity and initialise with a baseline leave it       *)
(* unchanged, and no operation ever changes the bus handle or the          *)
(* peripheral address.                                                     *)

\* the bus answered command i of the call with a valid frame, and the latest
\* measurement is now the reading in it
C19_StoredFrom(i) ==
    /\ ~script'[i].wfail
    /\ ~script'[i].rfail
    /\ BadBlocks(script'[i].data) = {}
    /\ latest_measurement' = Some([equivalent_co2 |-> WordAt(script'[i].data, 1),
                                   tvoc |-> WordAt(script'[i].data, 2)])

C19_Frame ==
    [][/\ bus' = bus
       /\ address' = address
       /\ (op' \in {"serial_id", "feature_set", "baseline_get", "baseline_set",
                     "raw_signals", "set_humidity"}
               \/ (op' = "initialise" /\ arg' # None)) =>
              latest_measurement' = latest_measurement
       /\ latest_measurement' # latest_measurement =>
              /\ pc = "idle"
              /\ \/ op' = "measure" /\ status' = "ok" /\ C19_StoredFrom(1)
                 \/ /\ op' = "initialise"
                    /\ arg' = None
                    /\ \E i \in 2..C17_Writes' : C19_StoredFrom(i)]_vars

\* raw_signals has returned two words and the latest measurement is another
C19_Witness ==
    /\ Done("raw_signals")
    /\ status = "ok"
    /\ value = Some(<<13000, 18000>>)
    /\ latest_measurement = Some([equivalent_co2 |-> 401, tvoc |-> 65535])
    /\ bus = "bus"
    /\ address = 88

(* C20: the driver takes no lock around a command: when callers run whole  *)
(* operations one at a time on a session, a write and its matching delayed *)
(* read are never separated by another command's write; when two callers   *)
(* invoke response-expecting operations on the same session without        *)
(* serialising them, the bus order write(A), write(B), read(A) is          *)
(* reachable, so the pairing rests on the callers alone.                   *)

\* every read follows the write of its own call, with no write between
C20_Paired ==
    \A j \in 1..Len(wire) :
        wire[j].ev.t = "read" =>
            \E i \in 1..(j - 1) :
                /\ wire[i].ev.t = "write"
                /\ wire[i].who = wire[j].who
                /\ wire[i].n = wire[j].n
                /\ \A k \in (i + 1)..(j - 1) : wire[k].ev.t # "write"

C20_SerialisedPairing == serialised => C20_Paired

\* without serialisation: A writes measure, B writes raw_signals, A reads
C20_Witness ==
    LET tx == SelectSeq(wire, LAMBDA x : x.ev.t # "sleep")
    IN  /\ ~serialised
        /\ Len(tx) = 3
        /\ tx[1] = [who |-> "A", n |-> 1, ev |-> Write(address, <<32, 8>>)]
        /\ tx[2] = [who |-> "B", n |-> 1, ev |-> Write(address, <<32, 80>>)]
        /\ tx[3] = [who |-> "A", n |-> 1, ev |-> Read(address, 6)]
        /\ ~C20_Paired

====
